---- MODULE Spec2Model ----
(***************************************************************************)
(* A model of the kvs key/value store: the log-structured engine of        *)
(* src/engines/kvs.rs (shared by threads through clones of KvStore), the   *)
(* single-threaded store of src/kv.rs and the in-memory map of src/lib.rs. *)
(*                                                                         *)
(* A log file is a sequence of bytes.  The bytes of a file are kept as a   *)
(* sequence of extents [cmd, lo, hi]: the bytes lo..hi of the JSON text of *)
(* the command cmd.  A whole record is the extent [cmd, 1, EncLen(cmd)].   *)
(* Offsets and lengths are byte counts, as in the code.                    *)
(***************************************************************************)
EXTENDS Integers, Sequences, FiniteSets, TLC

\* ------------------------------------------------------------------------
\* Bounds of the model and scaled program constants

\* Terms 1..MaxTerm can be allocated; an operation that may need a fresh
\* term is started only while the terms it may need are below the bound.
MaxTerm == 6

\* The number of set and remove calls made on the log engine in one run.
MaxCalls == 4

\* COMPACTION_THRESHOLD is 1024 * 1024 in the source.  It is scaled here to
\* the length of the shortest Set record, so that a few overwrites reach it.
COMPACTION_THRESHOLD == 31

\* Capacity of the BufWriter made by new_writer (8192 in std), scaled with
\* the threshold: one record fits, two do not.
BUF_CAPACITY == 40

\* Keys in the order of the index (SkipMap / BTreeMap iterate in key order).
KeyOrder == <<"a", "b">>

Keys == {KeyOrder[i] : i \in 1..Len(KeyOrder)}

Values == {"x", "yy"}

Terms == 1..MaxTerm

\* The threads sharing the engine in the concurrent specification: thread 1
\* holds the KvStore returned by open(), thread 2 a clone of it.
Threads == {1, 2}

\* The partition of the keys among the threads (one key each).
KeysOf(t) == {KeyOrder[t]}

None == "None"

Unit == "()"

Ok(x) == [ok |-> TRUE, val |-> x]

Err(e) == [ok |-> FALSE, val |-> e]

Min(a, b) == IF a < b THEN a ELSE b

\* ------------------------------------------------------------------------
\* Command and its encoding (serde_json)

SetCmd(k, v) == [type |-> "Set", key |-> k, value |-> v]

RemoveCmd(k) == [type |-> "Remove", key |-> k, value |-> ""]

\* Length of the JSON text: {"Set":{"key":"k","value":"v"}} and
\* {"Remove":{"key":"k"}}.
EncLen(cmd) ==
  IF cmd.type = "Set" THEN 29 + Len(cmd.key) + Len(cmd.value)
  ELSE 21 + Len(cmd.key)

\* serde_json::to_writer: the bytes of one record.
Encode(cmd) == <<[cmd |-> cmd, lo |-> 1, hi |-> EncLen(cmd)]>>

ExtLen(e) == e.hi - e.lo + 1

RECURSIVE Size(_)
Size(f) == IF f = <<>> THEN 0 ELSE ExtLen(Head(f)) + Size(Tail(f))

\* Adjacent extents that continue each other are one extent.
RECURSIVE Norm(_)
Norm(f) ==
  IF Len(f) < 2 THEN f
  ELSE LET a == f[1]
           b == f[2]
       IN IF a.cmd = b.cmd /\ b.lo = a.hi + 1
          THEN Norm(<<[cmd |-> a.cmd, lo |-> a.lo, hi |-> b.hi]>> \o SubSeq(f, 3, Len(f)))
          ELSE <<a>> \o Norm(Tail(f))

\* The bytes [off, off + n) of f, cut at the end of the file.
RECURSIVE Slice(_, _, _)
Slice(f, off, n) ==
  IF f = <<>> \/ n <= 0 THEN <<>>
  ELSE LET e == Head(f)
           sz == ExtLen(e)
       IN IF off >= sz THEN Slice(Tail(f), off - sz, n)
          ELSE LET take == Min(n, sz - off)
               IN <<[cmd |-> e.cmd, lo |-> e.lo + off, hi |-> e.lo + off + take - 1]>>
                  \o Slice(Tail(f), 0, n - take)

\* write(2) of bytes at position at: bytes there are overwritten, the file
\* grows when the write ends past its end.
WriteAt(f, at, bytes) ==
  Norm(Slice(f, 0, at) \o bytes \o Slice(f, at + Size(bytes), Size(f)))

IsWhole(e) == e.lo = 1 /\ e.hi = EncLen(e.cmd)

\* serde_json::from_reader on a byte string: exactly one record, else an
\* error (a cut record, or characters after the record).
Decode(bytes) ==
  LET n == Norm(bytes)
  IN IF Len(n) = 1 /\ IsWhole(n[1]) THEN Ok(n[1].cmd) ELSE Err("SerdeJson")

\* ------------------------------------------------------------------------
\* State

VARIABLES
  dir,            \* the terms t whose file <t>.log is in the directory
  files,          \* files[t]: the bytes of the file of term t (kept while open)
  index,          \* KvStore.index: key -> Pos, NoPos when absent
  safe_point,     \* KvsReader.safe_point (shared)
  current_term,   \* KvsWriter.current_term
  uncompacted,    \* KvsWriter.uncompacted
  writer,         \* KvsWriter.writer: the BufWriter<File> appended to
  wreaders,       \* KvsWriter.reader.readers: terms with a cached handle
  comp,           \* locals of a running KvsWriter::compact
  lock,           \* the thread holding the writer Mutex, 0 when free
  readers,        \* readers[t]: KvStore.reader.readers of thread t's view
  pc,             \* pc[t]: where thread t is
  op,             \* op[t]: the call thread t is in (key, value, Pos read)
  ret,            \* ret[t]: the last call thread t completed and its result
  oracle,         \* the in-memory map of src/lib.rs fed the successful calls
  calls,          \* the number of set and remove calls made so far
  kv,             \* the single-threaded store of src/kv.rs
  net,            \* the server of src/server.rs, its connections and workers
  proc            \* the kvs-server process and the engine marker file

vars ==
  <<dir, files, index, safe_point, current_term, uncompacted, writer, wreaders,
    comp, lock, readers, pc, op, ret, oracle, calls, kv, net, proc>>

engineVars ==
  <<dir, files, index, safe_point, current_term, uncompacted, writer, wreaders,
    comp, lock, readers, pc, op, ret, oracle, calls>>

Pos(term, offset, len) == [term |-> term, offset |-> offset, len |-> len]

NoPos == Pos(0, 0, 0)

\* A BufWriter<File>: the file, the position of the file cursor and the
\* bytes buffered and not yet written.
Handle(term, at) == [term |-> term, at |-> at, buf |-> <<>>]

NoHandle == Handle(0, 0)

NoOp == [kind |-> "", key |-> "", value |-> "", pos |-> NoPos]

NoRet == [kind |-> "", key |-> "", res |-> Ok(Unit)]

Ret(kind, key, res) == [kind |-> kind, key |-> key, res |-> res]

NoComp ==
  [compact_term |-> 0, writer |-> NoHandle, offset |-> 0, next |-> 0, eager |-> FALSE]

EmptyFiles == [t \in Terms |-> <<>>]

EmptyIndex == [k \in Keys |-> NoPos]

\* ------------------------------------------------------------------------
\* Files and handles

\* Mutant of FlushBuf: the flush writes nothing.
FlushBuf_nothing(h, fs) == [h |-> h, fs |-> fs]

\* BufWriter::flush_buf: the buffered bytes go to the file at the cursor.
FlushBuf(h, fs) ==
  [h |-> [h EXCEPT !.at = h.at + Size(h.buf), !.buf = <<>>],
   fs |-> [fs EXCEPT ![h.term] = WriteAt(fs[h.term], h.at, h.buf)]]

\* BufWriter::write: the buffer is flushed first when the bytes do not fit;
\* bytes as long as the buffer go straight to the file.
BufWrite(h, fs, bytes) ==
  LET f == IF Size(h.buf) + Size(bytes) > BUF_CAPACITY THEN FlushBuf(h, fs)
           ELSE [h |-> h, fs |-> fs]
  IN IF Size(bytes) >= BUF_CAPACITY
     THEN [h |-> [f.h EXCEPT !.at = f.h.at + Size(bytes)],
           fs |-> [f.fs EXCEPT ![h.term] = WriteAt(f.fs[h.term], f.h.at, bytes)]]
     ELSE [h |-> [f.h EXCEPT !.buf = Norm(f.h.buf \o bytes)], fs |-> f.fs]

\* The bytes of an unlinked file live as long as some handle is open on it.
Reclaim(fs, d, caches) ==
  [t \in Terms |-> IF t \in d \/ t \in caches THEN fs[t] ELSE <<>>]

AllCaches(rs, wr) == wr \cup UNION {rs[t] : t \in Threads}

\* Mutant of sorted_terms: the terms are left unsorted, here in descending
\* order.
RECURSIVE sorted_terms_unsorted(_)
sorted_terms_unsorted(d) ==
  IF d = {} THEN <<>>
  ELSE LET m == CHOOSE x \in d : \A y \in d : x >= y
       IN <<m>> \o sorted_terms_unsorted(d \ {m})

\* sorted_terms: the terms of the directory, ascending.
RECURSIVE sorted_terms(_)
sorted_terms(d) ==
  IF d = {} THEN <<>>
  ELSE LET m == CHOOSE x \in d : \A y \in d : x <= y
       IN <<m>> \o sorted_terms(d \ {m})

\* ------------------------------------------------------------------------
\* KvsReader

\* Mutant of close_stale_handles: the handle of the safe point's own term
\* is dropped too.
close_stale_handles_through(cache, sp) == {t \in cache : ~(sp >= t)}

\* close_stale_handles: drops the handles of terms below the safe point.
close_stale_handles(cache, sp) == {t \in cache : ~(sp > t)}

\* read_and: evicts the stale handles, opens the file of pos.term when no
\* handle is cached (an error when the file is not in the directory), seeks
\* and takes pos.len bytes.
read_and(cache, pos, sp, d, fs) ==
  LET c1 == close_stale_handles(cache, sp)
  IN IF pos.term \notin c1 /\ pos.term \notin d
     THEN [cache |-> c1, res |-> Err("Io")]
     ELSE [cache |-> c1 \cup {pos.term},
           res |-> Ok(Slice(fs[pos.term], pos.offset, pos.len))]

\* What get makes of the bytes read: the value of a Set record.
GetValue(bytes) ==
  LET cmd == Decode(bytes)
  IN IF ~cmd.ok THEN cmd
     ELSE IF cmd.val.type = "Set" THEN Ok(cmd.val.value)
     ELSE Err("UnexpectedCommandType")

\* KvStore::get run without interruption on a view with the given cache.
get(cache, k) ==
  IF index[k] = NoPos THEN Ok(None)
  ELSE LET r == read_and(cache, index[k], safe_point, dir, files)
       IN IF r.res.ok THEN GetValue(r.res.val) ELSE r.res

\* ------------------------------------------------------------------------
\* Recovery

\* Mutant of load: a Remove record counts only the record it removes, not
\* its own length.
RECURSIVE load_remove_uncounted(_, _, _, _, _)
load_remove_uncounted(term, f, offset, idx, unc) ==
  IF f = <<>> THEN [ok |-> TRUE, index |-> idx, uncompacted |-> unc]
  ELSE LET e == Head(f)
           new_offset == offset + ExtLen(e)
           pos == Pos(term, offset, new_offset - offset)
           k == e.cmd.key
       IN IF ~IsWhole(e) THEN [ok |-> FALSE, index |-> idx, uncompacted |-> unc]
          ELSE IF e.cmd.type = "Set"
          THEN load_remove_uncounted(term, Tail(f), new_offset, [idx EXCEPT ![k] = pos],
                                     unc + idx[k].len)
          ELSE load_remove_uncounted(term, Tail(f), new_offset, [idx EXCEPT ![k] = NoPos],
                                     unc + idx[k].len)

\* Mutant of load: the replay stops at an undecodable record and keeps the
\* records decoded so far.
RECURSIVE load_skip_bad(_, _, _, _, _)
load_skip_bad(term, f, offset, idx, unc) ==
  IF f = <<>> THEN [ok |-> TRUE, index |-> idx, uncompacted |-> unc]
  ELSE LET e == Head(f)
           new_offset == offset + ExtLen(e)
           pos == Pos(term, offset, new_offset - offset)
           k == e.cmd.key
       IN IF ~IsWhole(e) THEN [ok |-> TRUE, index |-> idx, uncompacted |-> unc]
          ELSE IF e.cmd.type = "Set"
          THEN load_skip_bad(term, Tail(f), new_offset, [idx EXCEPT ![k] = pos],
                             unc + idx[k].len)
          ELSE load_skip_bad(term, Tail(f), new_offset, [idx EXCEPT ![k] = NoPos],
                             unc + idx[k].len + (new_offset - offset))

\* load: replays the records of one file into the index and sums the bytes
\* made dead; an undecodable record is an error.
RECURSIVE load(_, _, _, _, _)
load(term, f, offset, idx, unc) ==
  IF f = <<>> THEN [ok |-> TRUE, index |-> idx, uncompacted |-> unc]
  ELSE LET e == Head(f)
           new_offset == offset + ExtLen(e)
           pos == Pos(term, offset, new_offset - offset)
           k == e.cmd.key
       IN IF ~IsWhole(e) THEN [ok |-> FALSE, index |-> idx, uncompacted |-> unc]
          ELSE IF e.cmd.type = "Set"
          THEN load(term, Tail(f), new_offset, [idx EXCEPT ![k] = pos],
                    unc + idx[k].len)
          ELSE load(term, Tail(f), new_offset, [idx EXCEPT ![k] = NoPos],
                    unc + idx[k].len + (new_offset - offset))

\* The replay loop of open over the sorted terms.
RECURSIVE LoadTerms(_, _, _, _)
LoadTerms(terms, fs, idx, unc) ==
  IF terms = <<>> THEN [ok |-> TRUE, index |-> idx, uncompacted |-> unc]
  ELSE LET r == load(Head(terms), fs[Head(terms)], 0, idx, 0)
       IN IF ~r.ok THEN r
          ELSE LoadTerms(Tail(terms), fs, r.index, unc + r.uncompacted)

Last(s) == s[Len(s)]

\* Mutant of OpenTerm: the first term found plus one.
OpenTerm_first(terms) == (IF terms = <<>> THEN 0 ELSE Head(terms)) + 1

\* Mutant of OpenTerm: the number of files found plus one.
OpenTerm_count(terms) == Len(terms) + 1

\* Mutant of OpenTerm: open goes on in the last file found.
OpenTerm_reuse(terms) == IF terms = <<>> THEN 1 ELSE Last(terms)

\* current_term of open: the last term found plus one.
OpenTerm(terms) == (IF terms = <<>> THEN 0 ELSE Last(terms)) + 1

\* ------------------------------------------------------------------------
\* The log engine (src/engines/kvs.rs), one step at a time

\* The state after KvStore::open on an empty directory.
InitEngine ==
  /\ dir = {1}
  /\ files = EmptyFiles
  /\ index = EmptyIndex
  /\ safe_point = 0
  /\ current_term = 1
  /\ uncompacted = 0
  /\ writer = Handle(1, 0)
  /\ wreaders = {}
  /\ comp = NoComp
  /\ lock = 0
  /\ readers = [t \in Threads |-> {}]
  /\ pc = [t \in Threads |-> "idle"]
  /\ op = [t \in Threads |-> NoOp]
  /\ ret = [t \in Threads |-> NoRet]
  /\ oracle = [k \in Keys |-> None]
  /\ calls = 0

\* The in-memory map of src/lib.rs: insert on a successful set, delete on a
\* successful remove.
OracleAfter(o, res) ==
  IF res.ok /\ o.kind = "set" THEN [oracle EXCEPT ![o.key] = o.value]
  ELSE IF res.ok /\ o.kind = "remove" THEN [oracle EXCEPT ![o.key] = None]
  ELSE oracle

\* A call of thread t returns res.
Return(t, res) ==
  /\ pc' = [pc EXCEPT ![t] = "idle"]
  /\ op' = [op EXCEPT ![t] = NoOp]
  /\ ret' = [ret EXCEPT ![t] = Ret(op[t].kind, op[t].key, res)]
  /\ oracle' = OracleAfter(op[t], res)

\* The MutexGuard of set and remove is dropped when the call returns.
Unlock == lock' = 0

\* Mutant of GetLookup: get starts by taking the writer Mutex for its
\* lookup, so it waits while the Mutex is held.
GetLookup_locked(t, k) ==
  /\ pc[t] = "idle"
  /\ lock = 0
  /\ IF index[k] = NoPos
     THEN /\ ret' = [ret EXCEPT ![t] = Ret("get", k, Ok(None))]
          /\ UNCHANGED <<pc, op>>
     ELSE /\ pc' = [pc EXCEPT ![t] = "get_evict"]
          /\ op' = [op EXCEPT ![t] = [kind |-> "get", key |-> k, value |-> "",
                                      pos |-> index[k]]]
          /\ ret' = [ret EXCEPT ![t] = NoRet]
  /\ UNCHANGED <<dir, files, index, safe_point, current_term, uncompacted, writer,
                 wreaders, comp, lock, readers, oracle, calls, kv, net, proc>>

\* KvStore::get, the index lookup.
GetLookup(t, k) ==
  /\ pc[t] = "idle"
  /\ IF index[k] = NoPos
     THEN /\ ret' = [ret EXCEPT ![t] = Ret("get", k, Ok(None))]
          /\ UNCHANGED <<pc, op>>
     ELSE /\ pc' = [pc EXCEPT ![t] = "get_evict"]
          /\ op' = [op EXCEPT ![t] = [kind |-> "get", key |-> k, value |-> "",
                                      pos |-> index[k]]]
          /\ ret' = [ret EXCEPT ![t] = NoRet]
  /\ UNCHANGED <<dir, files, index, safe_point, current_term, uncompacted, writer,
                 wreaders, comp, lock, readers, oracle, calls, kv, net, proc>>

\* read_and of the view: close_stale_handles.
GetEvict(t) ==
  /\ pc[t] = "get_evict"
  /\ readers' = [readers EXCEPT ![t] = close_stale_handles(readers[t], safe_point)]
  /\ files' = Reclaim(files, dir, AllCaches(readers', wreaders))
  /\ pc' = [pc EXCEPT ![t] = "get_open"]
  /\ UNCHANGED <<dir, index, safe_point, current_term, uncompacted, writer,
                 wreaders, comp, lock, op, ret, oracle, calls, kv, net, proc>>

\* read_and of the view: File::open when no handle of the term is cached.
GetOpen(t) ==
  /\ pc[t] = "get_open"
  /\ LET term == op[t].pos.term
     IN IF term \in readers[t] \/ term \in dir
        THEN /\ readers' = [readers EXCEPT ![t] = readers[t] \cup {term}]
             /\ pc' = [pc EXCEPT ![t] = "get_read"]
             /\ UNCHANGED <<op, ret, oracle>>
        ELSE /\ Return(t, Err("Io"))
             /\ UNCHANGED readers
  /\ UNCHANGED <<dir, files, index, safe_point, current_term, uncompacted, writer,
                 wreaders, comp, lock, calls, kv, net, proc>>

\* read_and of the view: seek, take pos.len bytes, decode.
GetRead(t) ==
  /\ pc[t] = "get_read"
  /\ LET pos == op[t].pos
     IN Return(t, GetValue(Slice(files[pos.term], pos.offset, pos.len)))
  /\ UNCHANGED <<dir, files, index, safe_point, current_term, uncompacted, writer,
                 wreaders, comp, lock, readers, calls, kv, net, proc>>

\* Mutant of OverThreshold: the threshold itself passes.
OverThreshold_at(u) == u >= COMPACTION_THRESHOLD

\* Mutant of OverThreshold: every set passes the threshold.
OverThreshold_always(u) == TRUE

\* Whether the compaction threshold is passed.
OverThreshold(u) == u > COMPACTION_THRESHOLD

\* Mutant of CanLock: the Mutex excludes nobody.
CanLock_always(t) == TRUE

\* Whether thread t may take the writer Mutex.
CanLock(t) == lock = 0

\* KvStore::set: the writer Mutex is taken.
SetLock(t, k, v) ==
  /\ pc[t] = "idle"
  /\ CanLock(t)
  /\ calls < MaxCalls
  /\ calls' = calls + 1
  /\ OverThreshold(uncompacted + index[k].len) => current_term + 2 <= MaxTerm
  /\ lock' = t
  /\ pc' = [pc EXCEPT ![t] = "set_write"]
  /\ op' = [op EXCEPT ![t] = [kind |-> "set", key |-> k, value |-> v, pos |-> NoPos]]
  /\ ret' = [ret EXCEPT ![t] = NoRet]
  /\ UNCHANGED <<dir, files, index, safe_point, current_term, uncompacted, writer,
                 wreaders, comp, readers, oracle, kv, net, proc>>

\* KvsWriter::set: the record is written and flushed.  The seek that gives
\* the offset first writes out what an earlier failed flush left in the
\* buffer.
SetWrite(t) ==
  /\ pc[t] = "set_write"
  /\ LET s == FlushBuf(writer, files)
         offset == s.h.at
         w == BufWrite(s.h, s.fs, Encode(SetCmd(op[t].key, op[t].value)))
         f == FlushBuf(w.h, w.fs)
         new_offset == f.h.at
     IN /\ writer' = f.h
        /\ files' = f.fs
        /\ op' = [op EXCEPT ![t].pos = Pos(current_term, offset, new_offset - offset)]
  /\ pc' = [pc EXCEPT ![t] = "set_insert"]
  /\ UNCHANGED <<dir, index, safe_point, current_term, uncompacted, wreaders, comp,
                 lock, readers, ret, oracle, calls, kv, net, proc>>

\* KvsWriter::set: the index entry is replaced and the threshold checked.
SetInsert(t) ==
  /\ pc[t] = "set_insert"
  /\ uncompacted' = uncompacted + index[op[t].key].len
  /\ index' = [index EXCEPT ![op[t].key] = op[t].pos]
  /\ IF OverThreshold(uncompacted')
     THEN /\ pc' = [pc EXCEPT ![t] = "compact"]
          /\ UNCHANGED <<lock, op, ret, oracle>>
     ELSE Return(t, Ok(Unit)) /\ Unlock
  /\ UNCHANGED <<dir, files, safe_point, current_term, writer, wreaders, comp,
                 readers, calls, kv, net, proc>>

\* KvStore::remove: the writer Mutex is taken.
RemoveLock(t, k) ==
  /\ pc[t] = "idle"
  /\ CanLock(t)
  /\ calls < MaxCalls
  /\ calls' = calls + 1
  /\ (index[k] = NoPos /\ OverThreshold(uncompacted)) => current_term + 2 <= MaxTerm
  /\ lock' = t
  /\ pc' = [pc EXCEPT ![t] = "remove_check"]
  /\ op' = [op EXCEPT ![t] = [kind |-> "remove", key |-> k, value |-> "", pos |-> NoPos]]
  /\ ret' = [ret EXCEPT ![t] = NoRet]
  /\ UNCHANGED <<dir, files, index, safe_point, current_term, uncompacted, writer,
                 wreaders, comp, readers, oracle, kv, net, proc>>

\* KvsWriter::remove: a key of the index has its Remove record written and
\* flushed; for a missing key the threshold is checked and the call fails.
RemoveCheck(t) ==
  /\ pc[t] = "remove_check"
  /\ IF index[op[t].key] # NoPos
     THEN LET w == BufWrite(writer, files, Encode(RemoveCmd(op[t].key)))
              f == FlushBuf(w.h, w.fs)
          IN /\ writer' = f.h
             /\ files' = f.fs
             /\ pc' = [pc EXCEPT ![t] = "remove_index"]
             /\ UNCHANGED <<lock, op, ret, oracle>>
     ELSE /\ IF OverThreshold(uncompacted)
             THEN /\ pc' = [pc EXCEPT ![t] = "compact"]
                  /\ UNCHANGED <<lock, op, ret, oracle>>
             ELSE Return(t, Err("KeyNotFound")) /\ Unlock
          /\ UNCHANGED <<writer, files>>
  /\ UNCHANGED <<dir, index, safe_point, current_term, uncompacted, wreaders, comp,
                 readers, calls, kv, net, proc>>

\* KvsWriter::remove: the index entry is removed.
RemoveIndex(t) ==
  /\ pc[t] = "remove_index"
  /\ uncompacted' = uncompacted + index[op[t].key].len
  /\ index' = [index EXCEPT ![op[t].key] = NoPos]
  /\ Return(t, Ok(Unit))
  /\ Unlock
  /\ UNCHANGED <<dir, files, safe_point, current_term, writer, wreaders, comp,
                 readers, calls, kv, net, proc>>

\* ------------------------------------------------------------------------
\* KvsWriter::compact

\* Mutant of Unvisited: the iteration misses the first entry.
Unvisited_skip_first ==
  {i \in (IF comp.next = 1 THEN 2 ELSE comp.next)..Len(KeyOrder) : index[KeyOrder[i]] # NoPos}

\* The positions in KeyOrder of the index entries the iteration has not
\* visited yet.
Unvisited == {i \in comp.next..Len(KeyOrder) : index[KeyOrder[i]] # NoPos}

\* What the call that ran the compaction returns after it: set returns
\* Ok(()), remove (which compacts on its key-missing path) KeyNotFound.
AfterCompact(o) == IF o.kind = "set" THEN Ok(Unit) ELSE Err("KeyNotFound")

\* Mutant of CompactPos: the entry keeps the term it had.
CompactPos_old_term(compact_term, offset, entry) == Pos(entry.term, offset, entry.len)

\* Mutant of CompactPos: the running output offset is not used.
CompactPos_no_offset(compact_term, offset, entry) == Pos(compact_term, 0, entry.len)

\* The Pos compact gives an entry it has copied.
CompactPos(compact_term, offset, entry) == Pos(compact_term, offset, entry.len)

\* io::copy into the BufWriter: the generic copy leaves the bytes in the
\* buffer (BufWriter::write); the copy specialised for BufWriter, of later
\* versions of std, ends with the buffer flushed.  Which one runs depends on
\* the toolchain (eager).
CopyInto(h, fs, bytes, eager) ==
  LET w == BufWrite(h, fs, bytes)
  IN IF eager THEN FlushBuf(w.h, w.fs) ELSE w

\* The terms are allocated and the two files created.
CompactBegin(t) ==
  /\ pc[t] = "compact"
  /\ LET compact_term == current_term + 1
     IN /\ current_term' = current_term + 2
        /\ dir' = dir \cup {compact_term, current_term'}
        /\ \E eager \in BOOLEAN :
             comp' = [compact_term |-> compact_term,
                      writer |-> Handle(compact_term, 0),
                      offset |-> 0, next |-> 1, eager |-> eager]
        /\ writer' = Handle(current_term', 0)
  /\ pc' = [pc EXCEPT ![t] = "compact_copy"]
  /\ UNCHANGED <<files, index, safe_point, uncompacted, wreaders, lock, readers,
                 op, ret, oracle, calls, kv, net, proc>>

\* One turn of the copy loop: the record of the next index entry is read
\* through the writer's reader and copied into the compaction writer, and
\* the entry is repointed.  A failed read ends the call with the error (the
\* compaction writer is dropped, which flushes its buffer).
CompactCopy(t) ==
  /\ pc[t] = "compact_copy"
  /\ Unvisited # {}
  /\ LET i == CHOOSE x \in Unvisited : \A y \in Unvisited : x <= y
         k == KeyOrder[i]
         entry == index[k]
         r == read_and(wreaders, entry, safe_point, dir, files)
     IN /\ wreaders' = r.cache
        /\ IF r.res.ok
           THEN LET len == Size(r.res.val)
                    w == CopyInto(comp.writer, files, r.res.val, comp.eager)
                    new_pos == CompactPos(comp.compact_term, comp.offset, entry)
                IN /\ index' = [index EXCEPT ![k] = new_pos]
                   /\ comp' = [comp EXCEPT !.writer = w.h, !.offset = comp.offset + len,
                                           !.next = i + 1]
                   /\ files' = Reclaim(w.fs, dir, AllCaches(readers, wreaders'))
                   /\ UNCHANGED <<pc, op, ret, oracle, lock>>
           ELSE /\ files' = Reclaim(FlushBuf(comp.writer, files).fs, dir,
                                    AllCaches(readers, wreaders'))
                /\ comp' = NoComp
                /\ Return(t, r.res)
                /\ Unlock
                /\ UNCHANGED index
  /\ UNCHANGED <<dir, safe_point, current_term, uncompacted, writer, readers, calls, kv, net, proc>>

\* compact_writer.flush() after the loop.
CompactFlush(t) ==
  /\ pc[t] = "compact_copy"
  /\ Unvisited = {}
  /\ LET f == FlushBuf(comp.writer, files)
     IN /\ files' = f.fs
        /\ comp' = [comp EXCEPT !.writer = f.h]
  /\ pc' = [pc EXCEPT ![t] = "compact_safe_point"]
  /\ UNCHANGED <<dir, index, safe_point, current_term, uncompacted, writer, wreaders,
                 lock, readers, op, ret, oracle, calls, kv, net, proc>>

\* safe_point.store(compact_term).
CompactSafePoint(t) ==
  /\ pc[t] = "compact_safe_point"
  /\ safe_point' = comp.compact_term
  /\ pc' = [pc EXCEPT ![t] = "compact_delete"]
  /\ UNCHANGED <<dir, files, index, current_term, uncompacted, writer, wreaders, comp,
                 lock, readers, op, ret, oracle, calls, kv, net, proc>>

\* Mutant of StaleTerms: every file but the compaction output is deleted.
StaleTerms_all_others(d, compact_term) == d \ {compact_term}

\* Mutant of StaleTerms: no file is deleted.
StaleTerms_none(d, compact_term) == {}

\* Mutant of StaleTerms: the compaction output is deleted too.
StaleTerms_inclusive(d, compact_term) == {gen \in d : gen <= compact_term}

\* The terms compact deletes: those of the directory below compact_term.
StaleTerms(d, compact_term) == {gen \in d : gen < compact_term}

\* The writer's reader closes its stale handles, the stale files are
\* removed, uncompacted is reset and the call returns.
CompactDelete(t) ==
  /\ pc[t] = "compact_delete"
  /\ wreaders' = close_stale_handles(wreaders, safe_point)
  /\ dir' = dir \ StaleTerms(dir, comp.compact_term)
  /\ files' = Reclaim(files, dir', AllCaches(readers, wreaders'))
  /\ uncompacted' = 0
  /\ comp' = NoComp
  /\ Return(t, AfterCompact(op[t]))
  /\ Unlock
  /\ UNCHANGED <<index, safe_point, current_term, writer, readers, calls, kv, net, proc>>

\* ------------------------------------------------------------------------
\* Dropping the engine and KvStore::open on the same directory

\* Every clone is dropped (no call is running), so every handle is closed;
\* open replays the files in ascending term order, keeps a handle of each in
\* the cache of the returned KvStore and creates the file of the new
\* current term.  A file that does not decode makes open fail: there is no
\* engine then.
Open ==
  /\ \A t \in Threads : pc[t] \in {"idle", "closed"}
  /\ LET terms == sorted_terms(dir)
         r == LoadTerms(terms, files, EmptyIndex, 0)
         term == OpenTerm(terms)
     IN /\ term <= MaxTerm
        /\ files' = Reclaim(files, dir, {})
        /\ IF r.ok
           THEN /\ index' = r.index
                /\ uncompacted' = r.uncompacted
                /\ current_term' = term
                /\ dir' = dir \cup {term}
                /\ writer' = Handle(term, 0)
                /\ readers' = [t \in Threads |-> IF t = 1 THEN dir ELSE {}]
                /\ pc' = [t \in Threads |-> "idle"]
                /\ ret' = [t \in Threads |->
                             IF t = 1 THEN Ret("open", "", Ok(Unit)) ELSE NoRet]
           ELSE /\ index' = EmptyIndex
                /\ uncompacted' = 0
                /\ current_term' = 0
                /\ writer' = NoHandle
                /\ readers' = [t \in Threads |-> {}]
                /\ pc' = [t \in Threads |-> "closed"]
                /\ ret' = [t \in Threads |->
                             IF t = 1 THEN Ret("open", "", Err("SerdeJson")) ELSE NoRet]
                /\ UNCHANGED dir
  /\ safe_point' = 0
  /\ wreaders' = {}
  /\ comp' = NoComp
  /\ lock' = 0
  /\ op' = [t \in Threads |-> NoOp]
  /\ UNCHANGED <<oracle, calls, kv>>

\* The engine is dropped and opened again by the program using it.
Reopen == Open /\ UNCHANGED <<net, proc>>

\* The connections a client can make in one run.
Conns == {1, 2}

NoReq == [kind |-> "", key |-> "", value |-> ""]

\* A connection nobody has made yet: what the client sent on it, how many
\* requests the server decoded and the responses the server wrote.
NoConn == [state |-> "free", peer |-> "open", sent |-> <<>>, nread |-> 0, resps |-> <<>>]

\* A worker of the pool with no task.
NoTask == [conn |-> 0, req |-> NoReq]

\* No server: the engine is used through its API.
NetDown ==
  [listening |-> FALSE, shutdown |-> FALSE, accept_pc |-> "none", main_pc |-> "none",
   backlog |-> <<>>, queue |-> <<>>, conns |-> [c \in Conns |-> NoConn],
   worker |-> [t \in Threads |-> NoTask], sent |-> 0]

\* No kvs-server process: the engine is opened by a program of its own.
ProcNone ==
  [state |-> "none", marker |-> None, arg |-> None, engine |-> None, sled_db |-> FALSE]

\* ------------------------------------------------------------------------
\* I/O errors in set, remove and compact

\* The numbers of bytes a failing write gets to the file before the error.
IoCuts == {0, 30}

\* BufWriter::flush_buf failing after n bytes: the bytes written leave the
\* buffer, the others stay in it.
FailedFlush(h, fs, n) ==
  [h |-> [h EXCEPT !.at = h.at + n, !.buf = Slice(h.buf, n, Size(h.buf))],
   fs |-> [fs EXCEPT ![h.term] = WriteAt(fs[h.term], h.at, Slice(h.buf, 0, n))]]

\* Mutant of SetWriteFail: the index entry is replaced although the write
\* failed.
SetWriteFail_inserts(t, n) ==
  /\ pc[t] = "set_write"
  /\ LET s == FlushBuf(writer, files)
         w == BufWrite(s.h, s.fs, Encode(SetCmd(op[t].key, op[t].value)))
         f == FailedFlush(w.h, w.fs, n)
     IN /\ n < Size(w.h.buf)
        /\ writer' = f.h
        /\ files' = f.fs
        /\ index' = [index EXCEPT ![op[t].key] = Pos(current_term, s.h.at, n)]
  /\ Return(t, Err("Io"))
  /\ Unlock
  /\ UNCHANGED <<dir, safe_point, current_term, uncompacted, wreaders, comp,
                 readers, calls, kv, net, proc>>

\* KvsWriter::set: writer.flush() fails after n bytes of the record; the
\* `?` returns the error before the index is touched.
SetWriteFail(t, n) ==
  /\ pc[t] = "set_write"
  /\ LET s == FlushBuf(writer, files)
         w == BufWrite(s.h, s.fs, Encode(SetCmd(op[t].key, op[t].value)))
         f == FailedFlush(w.h, w.fs, n)
     IN /\ n < Size(w.h.buf)
        /\ writer' = f.h
        /\ files' = f.fs
  /\ Return(t, Err("Io"))
  /\ Unlock
  /\ UNCHANGED <<dir, index, safe_point, current_term, uncompacted, wreaders, comp,
                 readers, calls, kv, net, proc>>

\* KvsWriter::set: the seek fails because the bytes an earlier failed flush
\* left in the buffer cannot be written now either.
SetSeekFail(t) ==
  /\ pc[t] = "set_write"
  /\ writer.buf # <<>>
  /\ Return(t, Err("Io"))
  /\ Unlock
  /\ UNCHANGED <<dir, files, index, safe_point, current_term, uncompacted, writer,
                 wreaders, comp, readers, calls, kv, net, proc>>

\* KvsWriter::remove of a key of the index: writer.flush() fails after n
\* bytes of the buffer; the error is returned before index.remove.
RemoveWriteFail(t, n) ==
  /\ pc[t] = "remove_check"
  /\ index[op[t].key] # NoPos
  /\ LET w == BufWrite(writer, files, Encode(RemoveCmd(op[t].key)))
         f == FailedFlush(w.h, w.fs, n)
     IN /\ n < Size(w.h.buf)
        /\ writer' = f.h
        /\ files' = f.fs
  /\ Return(t, Err("Io"))
  /\ Unlock
  /\ UNCHANGED <<dir, index, safe_point, current_term, uncompacted, wreaders, comp,
                 readers, calls, kv, net, proc>>

\* KvsWriter::compact: new_writer fails.  current_term has been raised by
\* two already; created tells whether it is the second new_writer that
\* fails, after the file of compact_term was created.  self.writer is still
\* the writer of the old file.
CompactBeginFail(t, created) ==
  /\ pc[t] = "compact"
  /\ current_term' = current_term + 2
  /\ dir' = IF created THEN dir \cup {current_term + 1} ELSE dir
  /\ Return(t, Err("Io"))
  /\ Unlock
  /\ UNCHANGED <<files, index, safe_point, uncompacted, writer, wreaders, comp,
                 readers, calls, kv, net, proc>>

\* KvsWriter::compact: io::copy fails after n bytes of the record of the
\* next entry; the entry is not repointed, compact_writer is dropped, which
\* writes its buffer to the compaction output, and the error is returned.
CompactCopyFail(t, n) ==
  /\ pc[t] = "compact_copy"
  /\ Unvisited # {}
  /\ LET i == CHOOSE x \in Unvisited : \A y \in Unvisited : x <= y
         entry == index[KeyOrder[i]]
         r == read_and(wreaders, entry, safe_point, dir, files)
     IN /\ r.res.ok
        /\ n < Size(r.res.val)
        /\ wreaders' = r.cache
        /\ LET w == BufWrite(comp.writer, files, Slice(r.res.val, 0, n))
           IN files' = Reclaim(FlushBuf(w.h, w.fs).fs, dir, AllCaches(readers, wreaders'))
  /\ comp' = NoComp
  /\ Return(t, Err("Io"))
  /\ Unlock
  /\ UNCHANGED <<dir, index, safe_point, current_term, uncompacted, writer, readers,
                 calls, kv, net, proc>>

\* KvsWriter::compact: compact_writer.flush() fails after n bytes of its
\* buffer and the bytes left in the buffer are lost with the writer; every
\* entry has been repointed already.
CompactFlushFail(t, n) ==
  /\ pc[t] = "compact_copy"
  /\ Unvisited = {}
  /\ n < Size(comp.writer.buf)
  /\ files' = FailedFlush(comp.writer, files, n).fs
  /\ comp' = NoComp
  /\ Return(t, Err("Io"))
  /\ Unlock
  /\ UNCHANGED <<dir, index, safe_point, current_term, uncompacted, writer, wreaders,
                 readers, calls, kv, net, proc>>

\* Every clone of the engine is dropped while no call is running: the
\* handles are closed; the BufWriter of the writer writes out what is left
\* in its buffer if it can (ok).
Drop(ok) ==
  /\ \A t \in Threads : pc[t] = "idle"
  /\ LET f == IF ok THEN FlushBuf(writer, files) ELSE [h |-> writer, fs |-> files]
     IN files' = Reclaim(f.fs, dir, {})
  /\ writer' = NoHandle
  /\ pc' = [t \in Threads |-> "closed"]
  /\ readers' = [t \in Threads |-> {}]
  /\ wreaders' = {}
  /\ UNCHANGED <<dir, index, safe_point, current_term, uncompacted, comp, lock, op,
                 ret, oracle, calls, kv, net, proc>>

\* KvStore::open on the directory of a dropped engine.
OpenDropped ==
  /\ \A t \in Threads : pc[t] = "closed"
  /\ Open
  /\ UNCHANGED <<net, proc>>

\* ------------------------------------------------------------------------
\* Specifications of the log engine

\* The store of src/kv.rs before it is opened (not part of these
\* specifications).
KvClosed == [current_term |-> 0]

\* A step of thread t on the keys ks.
ThreadStep(t, ks) ==
  \/ \E k \in ks : GetLookup(t, k)
  \/ GetEvict(t)
  \/ GetOpen(t)
  \/ GetRead(t)
  \/ \E k \in ks, v \in Values : SetLock(t, k, v)
  \/ SetWrite(t)
  \/ SetInsert(t)
  \/ \E k \in ks : RemoveLock(t, k)
  \/ RemoveCheck(t)
  \/ RemoveIndex(t)
  \/ CompactBegin(t)
  \/ CompactCopy(t)
  \/ CompactFlush(t)
  \/ CompactSafePoint(t)
  \/ CompactDelete(t)

\* One handle of the engine used by one thread, with drop and reopen.
InitSeq == InitEngine /\ kv = KvClosed /\ net = NetDown /\ proc = ProcNone

NextSeq == ThreadStep(1, Keys) \/ Reopen

SpecSeq == InitSeq /\ [][NextSeq]_vars

\* One handle of the engine used by one thread, with I/O errors in its
\* writes and compactions, drop and reopen.
IoFailure(t) ==
  \/ \E n \in IoCuts : SetWriteFail(t, n)
  \/ SetSeekFail(t)
  \/ \E n \in IoCuts : RemoveWriteFail(t, n)
  \/ \E created \in BOOLEAN : CompactBeginFail(t, created)
  \/ \E n \in IoCuts : CompactCopyFail(t, n)
  \/ \E n \in IoCuts : CompactFlushFail(t, n)

\* The keys used under I/O errors.
IoKeys == {"a"}

\* The number of set and remove calls made under I/O errors.
MaxIoCalls == 3

NextIo ==
  \/ ThreadStep(1, IoKeys) /\ calls' <= MaxIoCalls
  \/ IoFailure(1)
  \/ \E ok \in BOOLEAN : Drop(ok)
  \/ OpenDropped

SpecIo == InitSeq /\ [][NextIo]_vars

\* Two threads sharing the engine, each working on its own keys.
Init == InitEngine /\ kv = KvClosed /\ net = NetDown /\ proc = ProcNone

Next == \E t \in Threads : ThreadStep(t, KeysOf(t))

Spec == Init /\ [][Next]_vars

\* ------------------------------------------------------------------------
\* Properties of the log engine

\* The value the index entry of k resolves to in the files: None for a key
\* that is not in the index, "error" when the bytes at the Pos are no Set
\* record.
IndexValue(k) ==
  IF index[k] = NoPos THEN None
  ELSE LET v == GetValue(Slice(files[index[k].term], index[k].offset, index[k].len))
       IN IF v.ok THEN v.val ELSE "error"

Quiescent == \A t \in Threads : pc[t] = "idle"

HasRecord(cmd) == \E t \in dir : \E i \in 1..Len(files[t]) : files[t][i].cmd = cmd

\* C1 (durability): when the engine has been dropped and opened again on the
\* same directory, open succeeds and get returns for every key the value of
\* the last successful set, or None when the last successful call on the
\* key was a remove (or the key was never set).
C1_Durability ==
  ret[1].kind = "open" =>
    /\ ret[1].res.ok
    /\ \A k \in Keys : get(readers[1], k) = Ok(oracle[k])

\* C1 witness: just reopened for at least the second time since a
\* compaction deleted the file of term 1; a is set, b was set and removed
\* (its Remove record is replayed).
C1_Witness ==
  /\ ret[1].kind = "open"
  /\ 1 \notin dir
  /\ Cardinality(dir) >= 4
  /\ oracle["a"] # None
  /\ oracle["b"] = None
  /\ HasRecord(RemoveCmd("b"))

\* C2 (round trip): a get of a key whose last successful call was set(k, v)
\* returns Some(v), whatever calls on other keys and whatever compactions
\* came in between.
C2_RoundTrip ==
  (ret[1].kind = "get" /\ oracle[ret[1].key] # None) =>
    ret[1].res = Ok(oracle[ret[1].key])

\* C2 witness: get(a) has returned Some(yy) after a compaction of this
\* session moved the record of a, with b set in between.
C2_Witness ==
  /\ ret[1] = Ret("get", "a", Ok("yy"))
  /\ safe_point > 0
  /\ index["a"].term = safe_point
  /\ index["b"].term > safe_point

\* C3 (compaction preserves semantics): whenever no call is running, the
\* index holds exactly the keys of the in-memory map fed the same calls,
\* and each entry resolves to the value the map holds.
C3_CompactionPreservesMap ==
  Quiescent => \A k \in Keys : IndexValue(k) = oracle[k]

\* C3 witness: no call is running, a compaction has run in this session and
\* both keys were moved by it; a removed key is absent.
C3_Witness ==
  /\ Quiescent
  /\ safe_point > 0
  /\ \E k \in Keys : index[k].term = safe_point /\ index[k].offset > 0
  /\ calls = MaxCalls

\* C6 (remove of an absent key): while remove(k) runs on a key that is not
\* in the index, the index, the current term, the log files and uncompacted
\* stay as they were, and the call returns KeyNotFound.
C6_RemoveAbsentUnchanged ==
  [][(op[1].kind = "remove" /\ index[op[1].key] = NoPos) =>
       /\ UNCHANGED <<index, current_term, dir, files, uncompacted>>
       /\ pc'[1] = "idle" => ret'[1] = Ret("remove", op[1].key, Err("KeyNotFound"))]_vars

\* C4 (compaction is transparent to concurrent readers): a get on one view
\* that runs while another thread compacts succeeds; in particular, when it
\* took the old Pos of its key from the index, the file of that Pos can
\* still be read after the writer has raised the safe point and deleted the
\* file: get never fails with an I/O error.
C4_GetSucceedsDuringCompaction ==
  \A t \in Threads : ret[t].kind = "get" => ret[t].res # Err("Io")

\* C5 (concurrent safety): with each thread working on its own keys, every
\* call returns what it returns in a serial run of the thread's own calls:
\* get the value the thread last set (None after its remove), set Ok, and
\* remove Ok for a key that was set and KeyNotFound for one that was not.
C5_SerialPerThread ==
  \A t \in Threads :
    /\ ret[t].kind = "get" => ret[t].res = Ok(oracle[ret[t].key])
    /\ ret[t].kind = "set" => ret[t].res = Ok(Unit)
    /\ ret[t].kind = "remove" => ret[t].res \in {Ok(Unit), Err("KeyNotFound")}

GetPcs == {"get_evict", "get_open", "get_read"}

WriterPcs ==
  {"set_write", "set_insert", "remove_check", "remove_index", "compact",
   "compact_copy", "compact_safe_point", "compact_delete"}

CompactPcs == {"compact", "compact_copy", "compact_safe_point", "compact_delete"}

\* C8 (get takes no writer lock): a thread inside get does not hold the
\* writer Mutex, and whoever holds it, an idle thread can start a get and a
\* thread inside get can take its next step.
C8_GetNeverTakesLock ==
  \A t \in Threads :
    /\ pc[t] \in GetPcs => lock # t
    /\ pc[t] = "idle" => \A k \in KeysOf(t) : ENABLED GetLookup(t, k)
    /\ pc[t] = "get_evict" => ENABLED GetEvict(t)
    /\ pc[t] = "get_open" => ENABLED GetOpen(t)
    /\ pc[t] = "get_read" => ENABLED GetRead(t)

\* C8 witness: thread 1 is about to read the file inside get while thread 2
\* holds the writer Mutex in the middle of a compaction.
C8_Witness ==
  /\ pc[1] = "get_read"
  /\ lock = 2
  /\ pc[2] = "compact_copy"
  /\ comp.next > 1

\* C9 (writer mutual exclusion): at most one thread is inside the body of
\* set, remove or compaction, and that thread holds the writer Mutex; a
\* compaction runs only inside a set or remove call.
C9_WriterMutualExclusion ==
  \A t \in Threads :
    /\ pc[t] \in WriterPcs =>
         (lock = t /\ \A u \in Threads \ {t} : pc[u] \notin WriterPcs)
    /\ pc[t] \in CompactPcs => op[t].kind \in {"set", "remove"}

\* C9 witness: thread 2 compacts inside its set while thread 1 has finished
\* a set of its own and is idle, so it would be free to call set again.
C9_Witness ==
  /\ pc[2] = "compact_copy"
  /\ op[2].kind = "set"
  /\ pc[1] = "idle"
  /\ ret[1].kind = "set"
  /\ calls < MaxCalls

\* C10 (concurrent writers): no set returns an error, and when every
\* thread has finished, get on any view returns for every key the last
\* value its thread set.
C10_ConcurrentWriters ==
  /\ \A t \in Threads : ret[t].kind = "set" => ret[t].res.ok
  /\ Quiescent =>
       \A t \in Threads : \A k \in Keys : get(readers[t], k) = Ok(oracle[k])

\* C10 witness: both threads have returned from a set, both keys are set and
\* a compaction ran in between.
C10_Witness ==
  /\ Quiescent
  /\ ret[1].kind = "set"
  /\ ret[2].kind = "set"
  /\ oracle["a"] # None
  /\ oracle["b"] # None
  /\ safe_point > 0

\* The keys every call so far was a successful set of: each of the calls
\* made set a key of its own, so the calls were sets to pairwise-distinct
\* keys.
DistinctLoopDone ==
  /\ Quiescent
  /\ calls = Cardinality(Keys)
  /\ \A k \in Keys : oracle[k] # None

\* C11 as stated (distinct sets make compaction fire): after a loop of sets
\* to pairwise-distinct keys on an empty directory a log file with term >= 3
\* exists, and every get(k_i) returns Some(v_i).
C11_DistinctSetsCompact ==
  DistinctLoopDone =>
    /\ \E t \in dir : t >= 3
    /\ \A k \in Keys : get(readers[1], k) = Ok(oracle[k])

\* C11 as amended: a loop of sets to pairwise-distinct keys displaces no
\* Pos, so uncompacted stays 0 and no compaction fires: no log file is ever
\* deleted or rewritten, and every get(k_i) returns Some(v_i).
C11_DistinctSetsNoCompaction ==
  DistinctLoopDone =>
    /\ uncompacted = 0
    /\ dir = 1..current_term
    /\ \A k \in Keys : get(readers[1], k) = Ok(oracle[k])

\* C11 witness: the loop has written more bytes than the threshold to the
\* only log file.
C11_Witness ==
  /\ DistinctLoopDone
  /\ dir = {1}
  /\ Size(files[1]) > COMPACTION_THRESHOLD

RECURSIVE SumOver(_, _)
SumOver(S, f) ==
  IF S = {} THEN 0
  ELSE LET x == CHOOSE y \in S : TRUE IN f[x] + SumOver(S \ {x}, f)

\* The bytes of the log files in the directory.
DiskSize == SumOver(dir, [t \in Terms |-> Size(files[t])])

\* The encoded lengths of the live Set records.
LiveSize ==
  SumOver({k \in Keys : oracle[k] # None},
          [k \in Keys |-> EncLen(SetCmd(k, oracle[k]))])

\* A compaction of this session has completed and nothing was written since.
JustCompacted ==
  /\ Quiescent
  /\ safe_point > 0
  /\ current_term = safe_point + 1
  /\ writer.at = 0

C20_IndexValidity ==
  \A k \in Keys :
    index[k] # NoPos =>
      /\ index[k].term \in dir
      /\ LET r == Decode(Slice(files[index[k].term], index[k].offset, index[k].len))
         IN r.ok /\ r.val.type = "Set" /\ r.val.key = k

\* C21 (term files of the index exist): the file of the term of every index
\* entry is in the directory unless the safe point is already above that
\* term, and once a compaction has completed (until the next one starts) no
\* index entry is of a term below the safe point.
C21_IndexTermsOnDisk ==
  /\ \A k \in Keys :
       index[k] # NoPos => index[k].term \in dir \/ safe_point > index[k].term
  /\ (safe_point > 0 /\ comp = NoComp) =>
       \A k \in Keys : index[k] # NoPos => index[k].term >= safe_point

\* C21 witness: a compaction has completed and deleted the file of term 1;
\* one entry is in the compaction output, another in the current term.
C21_Witness ==
  /\ Quiescent
  /\ safe_point > 0
  /\ 1 \notin dir
  /\ \E k \in Keys : index[k] # NoPos /\ index[k].term = safe_point
  /\ \E k \in Keys : index[k] # NoPos /\ index[k].term = current_term

\* The bytes of the records the index refers to.
ReferencedSize ==
  SumOver({k \in Keys : index[k] # NoPos}, [k \in Keys |-> index[k].len])

\* C22 (uncompacted bounds the dead bytes): whenever no call is running,
\* uncompacted is at least the number of bytes of the log files in the
\* directory that no index entry refers to.
C22_UncompactedBoundsDeadBytes ==
  Quiescent => uncompacted >= DiskSize - ReferencedSize

\* The files of the directory a step writes to.
Written == {t \in dir \cap dir' : files'[t] # files[t]}

\* C23 (one file appended, as stated): a step that writes to a file of the
\* directory writes to the file of the writer's current term.
C23_OnlyCurrentTermWritten ==
  [][\A t \in Written : t = current_term]_vars

\* C23 (one file appended, amended): a step writes to at most one file of
\* the directory and only past its end; outside a compaction that file is
\* the one of the current term, inside a compaction it is the compaction
\* output, of term current_term - 1.
C23_OneFileAppended ==
  [][/\ Cardinality(Written) <= 1
     /\ \A t \in Written :
          /\ IF comp = NoComp THEN t = current_term
             ELSE t = comp.compact_term /\ t = current_term - 1
          /\ Norm(Slice(files'[t], 0, Size(files[t]))) = files[t]]_vars

\* C23 witness: a compaction is running over a directory that held more
\* than the first file, its output is partly on disk and the file of the
\* new current term is empty.
C23_Witness ==
  /\ comp # NoComp
  /\ files[comp.compact_term] # <<>>
  /\ files[current_term] = <<>>
  /\ comp.compact_term >= 3

\* C24 (remove checks the threshold on success): when remove has appended
\* the Remove record of a key of the index and taken the entry out, it goes
\* on to compact if uncompacted has passed the threshold.
C24_RemoveChecksThreshold ==
  [][\A t \in Threads :
       (pc[t] = "remove_index" /\ pc'[t] # "remove_index"
          /\ OverThreshold(uncompacted')) => pc'[t] = "compact"]_vars

\* C25 (strict threshold in set): set adds the length of the displaced Pos
\* to uncompacted and then compacts exactly when uncompacted is above the
\* threshold, not when it equals it; a set that returns Ok leaves
\* uncompacted at most at the threshold.
C25_SetCompactsAboveThreshold ==
  [][\A t \in Threads :
       /\ (pc[t] = "set_insert" /\ pc'[t] # "set_insert") =>
            /\ uncompacted' = uncompacted + index[op[t].key].len
            /\ (pc'[t] = "compact") <=> (uncompacted' > COMPACTION_THRESHOLD)
       /\ (ret'[t] # ret[t] /\ ret'[t].kind = "set" /\ ret'[t].res.ok) =>
            uncompacted' <= COMPACTION_THRESHOLD]_vars

\* C25 witness: a set has returned Ok without compacting, with uncompacted
\* exactly at the threshold.
C25_Witness ==
  \E t \in Threads :
    /\ pc[t] = "idle"
    /\ ret[t].kind = "set"
    /\ ret[t].res.ok
    /\ uncompacted = COMPACTION_THRESHOLD
    /\ safe_point = 0

\* The files as they are once the compaction writer has flushed its buffer.
FlushedFiles(c, fs) == IF c = NoComp THEN fs ELSE FlushBuf(c.writer, fs).fs

\* The value the entry e of an index resolves to in the files fs: None for
\* no entry, "error" when the bytes are no Set record.
ValueAt(e, fs) ==
  IF e = NoPos THEN None
  ELSE LET v == GetValue(Slice(fs[e.term], e.offset, e.len))
       IN IF v.ok THEN v.val ELSE "error"

\* C26 (terms and result of a compaction): a compaction started at current
\* term c writes to a new file of term c + 1 and moves the writer to a new
\* file of term c + 2; none of its steps changes the key set of the index
\* or the value a key resolves to; when it completes every index entry is
\* of term c + 1, resolves on disk to the value it had, and uncompacted
\* is 0.
C26_CompactionTermsAndResult ==
  [][\A t \in Threads :
       /\ (pc[t] = "compact" /\ pc'[t] # "compact") =>
            /\ comp'.compact_term = current_term + 1
            /\ comp'.writer = Handle(current_term + 1, 0)
            /\ current_term' = current_term + 2
            /\ writer' = Handle(current_term + 2, 0)
            /\ {current_term + 1, current_term + 2} \subseteq dir'
            /\ {current_term + 1, current_term + 2} \cap dir = {}
       /\ (pc[t] \in CompactPcs /\ pc'[t] \in CompactPcs) =>
            \A k \in Keys :
              /\ (index'[k] = NoPos) <=> (index[k] = NoPos)
              /\ ValueAt(index'[k], FlushedFiles(comp', files'))
                   = ValueAt(index[k], FlushedFiles(comp, files))
       /\ (pc[t] = "compact_delete" /\ pc'[t] = "idle") =>
            /\ ret'[t].res = AfterCompact(op[t])
            /\ comp.compact_term = current_term' - 1
            /\ uncompacted' = 0
            /\ \A k \in Keys :
                 /\ (index'[k] = NoPos) <=> (index[k] = NoPos)
                 /\ index'[k] # NoPos => index'[k].term = comp.compact_term
                 /\ ValueAt(index'[k], files') = ValueAt(index[k], FlushedFiles(comp, files))]_vars

\* C26 witness: the second compaction of the session has just completed
\* inside a set; both keys are in the index, in its output of term 4.
C26_Witness ==
  /\ Quiescent
  /\ \E t \in Threads : ret[t].kind = "set" /\ ret[t].res.ok
  /\ safe_point = 4
  /\ current_term = 5
  /\ writer.at = 0
  /\ uncompacted = 0
  /\ \A k \in Keys : index[k] # NoPos /\ index[k].term = 4

\* C27 (order inside compact): the safe point is raised, to compact_term,
\* only when every index entry is of compact_term and resolves in the
\* flushed compaction output; a file is deleted only by a compaction whose
\* safe point is already raised, and only a file of a term below
\* compact_term: the compaction output and the file of the current term
\* stay.
C27_CompactionOrder ==
  [][/\ safe_point' > safe_point =>
          /\ comp # NoComp
          /\ safe_point' = comp.compact_term
          /\ comp.writer.buf = <<>>
          /\ dir' = dir
          /\ \A k \in Keys :
               index[k] # NoPos =>
                 /\ index[k].term = comp.compact_term
                 /\ ValueAt(index[k], files) # "error"
     /\ dir \ dir' # {} =>
          /\ comp # NoComp
          /\ safe_point = comp.compact_term
          /\ \A g \in dir \ dir' : g < comp.compact_term
          /\ {comp.compact_term, current_term} \subseteq dir']_vars

\* C27 witness: the safe point has been raised by a compaction whose copies
\* stayed in the buffer until the flush, and the old files are still there.
C27_Witness ==
  \E t \in Threads :
    /\ pc[t] = "compact_delete"
    /\ ~comp.eager
    /\ safe_point = comp.compact_term
    /\ \E g \in dir : g < safe_point
    /\ \A k \in Keys : index[k] # NoPos /\ index[k].term = safe_point

\* C28 (eviction before a read): a read of a view starts by dropping from
\* the cache of that view exactly the handles of terms below the safe
\* point; the caches of the other views and of the writer, the index, the
\* safe point and the files of the directory are as they were.  The file is
\* opened and read only after that.  The reads a compaction makes through
\* the writer's view do the same on the writer's cache.
C28_EvictionBeforeRead ==
  [][\A t \in Threads :
       /\ (pc[t] = "get_evict" /\ pc'[t] # "get_evict") =>
            /\ readers'[t] = {x \in readers[t] : x >= safe_point}
            /\ \A u \in Threads \ {t} : readers'[u] = readers[u]
            /\ wreaders' = wreaders
            /\ UNCHANGED <<index, dir, safe_point>>
            /\ \A g \in dir : files'[g] = files[g]
       /\ (pc'[t] = "get_open" /\ pc[t] # "get_open") => pc[t] = "get_evict"
       /\ (pc'[t] = "get_read" /\ pc[t] # "get_read") => pc[t] = "get_open"
       /\ (pc[t] = "compact_copy" /\ pc'[t] = "compact_copy" /\ comp'.next # comp.next) =>
            /\ {x \in wreaders : x >= safe_point} \subseteq wreaders'
            /\ \A x \in wreaders' : x >= safe_point
            /\ readers' = readers]_vars

\* C28 witness: a view has just evicted before a read and kept the handle
\* of the safe point's term, while the other view still holds the handle
\* of a term below the safe point.
C28_Witness ==
  \E t \in Threads :
    /\ pc[t] = "get_open"
    /\ safe_point > 0
    /\ safe_point \in readers[t]
    /\ \A x \in readers[t] : x >= safe_point
    /\ \E u \in Threads \ {t} : \E x \in readers[u] : x < safe_point

\* The records of the files of the directory from term t on, in ascending
\* term order.
RECURSIVE RecordsFrom(_)
RecordsFrom(t) ==
  IF t > MaxTerm + 1 THEN <<>>
  ELSE (IF t \in dir /\ t \in Terms THEN files[t] ELSE <<>>) \o RecordsFrom(t + 1)

\* The sum of the claim over the records recs: len[k] is the length of the
\* record the index holds for k, 0 when it holds none.
RECURSIVE ReplaySum(_, _, _)
ReplaySum(recs, len, acc) ==
  IF recs = <<>> THEN acc
  ELSE LET e == Head(recs)
           k == e.cmd.key
       IN IF e.cmd.type = "Set"
          THEN ReplaySum(Tail(recs), [len EXCEPT ![k] = ExtLen(e)], acc + len[k])
          ELSE ReplaySum(Tail(recs), [len EXCEPT ![k] = 0], acc + len[k] + ExtLen(e))

\* C30 (recovery accounting): the uncompacted of a successful open is the
\* sum over the replayed records, in replay order, of the length of the
\* displaced Pos for a Set of an indexed key and, for a Remove, of the
\* length of the removed Pos plus the length of the Remove record; it is
\* the number of bytes of the log files the new index does not refer to.
C30_RecoveryAccounting ==
  [][Cardinality(dir' \ dir) = 1 =>
       /\ ret'[1] = Ret("open", "", Ok(Unit))
       /\ uncompacted' = ReplaySum(RecordsFrom(1), [k \in Keys |-> 0], 0)
       /\ uncompacted' =
            DiskSize - SumOver({k \in Keys : index'[k] # NoPos},
                               [k \in Keys |-> index'[k].len])]_vars

\* C30 witness: the engine has just been opened on a log holding a Set
\* record, the Set record that overwrote it and a Remove record of the key.
C30_Witness ==
  /\ ret[1] = Ret("open", "", Ok(Unit))
  /\ \E k \in Keys : HasRecord(RemoveCmd(k)) /\ index[k] = NoPos
  /\ uncompacted >= 2 * EncLen(SetCmd("a", "x")) + EncLen(RemoveCmd("a"))

\* C31 (a failed write changes nothing in memory): when the write or flush
\* of the record fails in set or remove, the call returns the error with
\* the index, uncompacted and current_term as they were, the Mutex free,
\* and every key resolving to what it resolved to before.
C31_FailedWriteKeepsState ==
  [][\A t \in Threads :
       (pc[t] \in {"set_write", "remove_check"} /\ pc'[t] = "idle"
          /\ ret'[t].res = Err("Io")) =>
         /\ ret'[t] = Ret(op[t].kind, op[t].key, Err("Io"))
         /\ index' = index
         /\ uncompacted' = uncompacted
         /\ current_term' = current_term
         /\ oracle' = oracle
         /\ lock' = 0
         /\ \A k \in Keys : ValueAt(index'[k], files') = ValueAt(index[k], files)]_vars

\* C31 witness: a set of a key of the index has failed after part of its
\* record reached the log; the key resolves to the value of the last
\* successful set.
C31_Witness ==
  /\ pc[1] = "idle"
  /\ ret[1] = Ret("set", "a", Err("Io"))
  /\ index["a"] # NoPos
  /\ index["a"].term = writer.term
  /\ writer.buf # <<>>
  /\ Size(files[writer.term]) > index["a"].offset + index["a"].len
  /\ IndexValue("a") = oracle["a"]

\* C32 (a failed compaction): when compact fails with an I/O error, the set
\* or remove that ran it returns the error, and an open of the directory as
\* the failure left it succeeds with no index entry in the file of
\* compact_term, the partial compaction output.
C32_PartialOutputIgnored ==
  [][\A t \in Threads :
       (pc[t] \in CompactPcs /\ pc'[t] = "idle" /\ ret'[t].res = Err("Io")) =>
         /\ ret'[t] = Ret(op[t].kind, op[t].key, Err("Io"))
         /\ LET compact_term == IF comp = NoComp THEN current_term + 1
                                ELSE comp.compact_term
                r == LoadTerms(sorted_terms(dir'), files', EmptyIndex, 0)
            IN /\ r.ok
               /\ \A k \in Keys : r.index[k].term # compact_term]_vars

\* C33 (term freshness): while the engine is open, current_term is above
\* the term of every other file of the directory and not below the term of
\* any index entry, and it never goes down in a session.  A file that is
\* created has a term above every file of the directory, the file of the
\* highest term is never deleted (so no term is used twice), and a writer
\* that moves goes to a file it creates, of the new current term.  Records
\* are written only to a file that has no written file above it, so the
\* ascending term order is the order of writing.
C33_TermFreshness ==
  [][/\ (\A t \in Threads : pc[t] # "closed") =>
          /\ \A g \in dir \ {current_term} : g < current_term
          /\ \A k \in Keys : index[k].term <= current_term
          /\ (\A t \in Threads : pc'[t] # "closed") => current_term' >= current_term
     /\ \A g \in dir' \ dir : \A u \in dir : g > u
     /\ dir # {} => \E g \in dir' : \A u \in dir : g >= u
     /\ (writer'.term # writer.term /\ writer' # NoHandle) =>
          /\ writer'.term = current_term'
          /\ writer'.term \in dir' \ dir
     /\ \A g \in Written : \A u \in dir : u > g => files[u] = <<>>]_vars

\* C33 witness: the engine is open in a session that came after a reopen,
\* a compaction has deleted the first files, and a record written after
\* it is in the file of the current term, above the compaction output.
C33_Witness ==
  /\ pc[1] = "idle"
  /\ safe_point >= 3
  /\ 1 \notin dir
  /\ safe_point \in dir
  /\ files[safe_point] # <<>>
  /\ current_term = safe_point + 1
  /\ index["a"].term = current_term

\* C34 (all-or-nothing set): when the last call of a thread is a set that
\* returned an error, also one raised by the compaction it ran, get of the
\* key returns what the successful calls before it made it return.
C34_FailedSetInvisible ==
  \A t \in Threads :
    (pc[t] = "idle" /\ ret[t].kind = "set" /\ ~ret[t].res.ok) =>
      get(readers[t], ret[t].key) = Ok(oracle[ret[t].key])

\* ------------------------------------------------------------------------
\* The single-threaded store of src/kv.rs.  Its calls take &mut self and
\* run without interruption.  kv.readers[t] is the file the handle
\* registered under term t is open on (0: no handle), kv.writer the File
\* appended to and the position of its cursor.

\* The state after KvStore::open on an empty directory.
KvInit ==
  [dir |-> {1},
   files |-> EmptyFiles,
   current_term |-> 1,
   index |-> EmptyIndex,
   readers |-> [t \in Terms |-> IF t = 1 THEN 1 ELSE 0],
   writer |-> [term |-> 1, at |-> 0],
   redundant |-> 0,
   ret |-> NoRet,
   oracle |-> [k \in Keys |-> None]]

\* serde_json::to_writer on the File of the writer.
KvWrite(s, cmd) ==
  [s EXCEPT !.files[s.writer.term] = WriteAt(@, s.writer.at, Encode(cmd)),
            !.writer.at = @ + EncLen(cmd)]

\* The handle compact registers under the new current term: it is opened
\* on the path of compact_term.
KvCurrentReader(compact_term, next_term) == compact_term

\* The copy loop of compact from the i-th key on: each record is read
\* through the handle registered under its term and appended to the file of
\* compact_term at cursor at; offset advances by the bytes copied.
RECURSIVE KvCopy(_, _, _, _, _)
KvCopy(s, compact_term, i, at, offset) ==
  IF i > Len(KeyOrder) THEN s
  ELSE LET k == KeyOrder[i]
           pos == s.index[k]
       IN IF pos = NoPos THEN KvCopy(s, compact_term, i + 1, at, offset)
          ELSE LET bytes == Slice(s.files[s.readers[pos.term]], pos.offset, pos.len)
                   len == Size(bytes)
                   s1 == [s EXCEPT !.files[compact_term] = WriteAt(@, at, bytes),
                                   !.index[k] = Pos(compact_term, offset, pos.len)]
               IN KvCopy(s1, compact_term, i + 1, at + len, offset + len)

\* KvStore::compact.
KvCompact(s) ==
  LET compact_term == s.current_term + 1
      next_term == s.current_term + 2
      s1 == [s EXCEPT !.current_term = next_term,
                      !.dir = @ \cup {compact_term, next_term},
                      !.writer = [term |-> next_term, at |-> 0],
                      !.readers[compact_term] = compact_term,
                      !.readers[next_term] = KvCurrentReader(compact_term, next_term)]
      s2 == KvCopy(s1, compact_term, 1, 0, 0)
      stale_terms == {t \in Terms : s2.readers[t] # 0 /\ t < compact_term}
  IN [s2 EXCEPT !.readers = [t \in Terms |-> IF t \in stale_terms THEN 0 ELSE @[t]],
                !.dir = @ \ stale_terms,
                !.files = [t \in Terms |-> IF t \in stale_terms THEN <<>> ELSE @[t]],
                !.redundant = 0]

\* KvStore::set.
KvSetOp(s, k, v) ==
  LET offset == s.writer.at
      s1 == KvWrite(s, SetCmd(k, v))
      new_offset == s1.writer.at
      pos == Pos(s.current_term, offset, new_offset - offset)
      s2 == [s1 EXCEPT !.index[k] = pos, !.redundant = @ + s.index[k].len]
      s3 == IF OverThreshold(s2.redundant) THEN KvCompact(s2) ELSE s2
  IN [s3 EXCEPT !.ret = Ret("set", k, Ok(Unit)), !.oracle[k] = v]

\* KvStore::get.
KvGetOp(s, k) ==
  LET pos == s.index[k]
      res == IF pos = NoPos THEN Ok(None)
             ELSE IF s.readers[pos.term] = 0 THEN Err("panic")
             ELSE GetValue(Slice(s.files[s.readers[pos.term]], pos.offset, pos.len))
  IN [s EXCEPT !.ret = Ret("get", k, res)]

\* KvStore::remove.
KvRemoveOp(s, k) ==
  IF s.index[k] # NoPos
  THEN LET s1 == KvWrite(s, RemoveCmd(k))
       IN [s1 EXCEPT !.index[k] = NoPos, !.redundant = @ + s.index[k].len,
                     !.ret = Ret("remove", k, Ok(Unit)), !.oracle[k] = None]
  ELSE LET s1 == IF OverThreshold(s.redundant) THEN KvCompact(s) ELSE s
       IN [s1 EXCEPT !.ret = Ret("remove", k, Err("KeyNotFound"))]

KvSet(k, v) ==
  /\ OverThreshold(kv.redundant + kv.index[k].len) => kv.current_term + 2 <= MaxTerm
  /\ kv' = KvSetOp(kv, k, v)
  /\ UNCHANGED <<engineVars, net, proc>>

KvGet(k) ==
  /\ kv' = KvGetOp(kv, k)
  /\ UNCHANGED <<engineVars, net, proc>>

KvRemove(k) ==
  /\ (kv.index[k] = NoPos /\ OverThreshold(kv.redundant)) =>
       kv.current_term + 2 <= MaxTerm
  /\ kv' = KvRemoveOp(kv, k)
  /\ UNCHANGED <<engineVars, net, proc>>

InitKv == InitEngine /\ kv = KvInit /\ net = NetDown /\ proc = ProcNone

NextKv ==
  \/ \E k \in Keys, v \in Values : KvSet(k, v)
  \/ \E k \in Keys : KvGet(k)
  \/ \E k \in Keys : KvRemove(k)

SpecKv == InitKv /\ [][NextKv]_vars

\* C7 (round trip in the store of src/kv.rs): a get of a key whose last
\* successful call was set(k, v) returns Some(v), also when the set came
\* after a compaction of the same session.
C7_KvRoundTrip ==
  (kv.ret.kind = "get" /\ kv.oracle[kv.ret.key] # None) =>
    kv.ret.res = Ok(kv.oracle[kv.ret.key])

\* ------------------------------------------------------------------------
\* The kvs-server process (src/bin/kvs-server.rs): engine selection, the
\* marker file `engine`, and KvStore::open on the working directory.  The
\* process can be stopped, or die in the middle of a write, and be started
\* again.

DEFAULT_ENGINE == "kvs"

Engines == {"kvs", "sled"}

\* The keys the server's engine is used on in this specification.
ProcKeys == {"a"}

\* Mutant of get_engine: the argument wins over the recorded engine.
get_engine_arg_wins(arg, cur) ==
  IF arg # None THEN arg ELSE IF cur # None THEN cur ELSE DEFAULT_ENGINE

\* get_engine: the engine to use given the --engine argument and the content
\* of the marker file (None: not given, no file); "exit 1" when they differ.
get_engine(arg, cur) ==
  IF arg = None /\ cur = None THEN DEFAULT_ENGINE
  ELSE IF arg = None THEN cur
  ELSE IF cur = None THEN arg
  ELSE IF arg # cur THEN "exit 1"
  ELSE arg

\* The working directory before the server ever ran: no marker, no log
\* file, no engine.
InitProc ==
  /\ dir = {}
  /\ files = EmptyFiles
  /\ index = EmptyIndex
  /\ safe_point = 0
  /\ current_term = 0
  /\ uncompacted = 0
  /\ writer = NoHandle
  /\ wreaders = {}
  /\ comp = NoComp
  /\ lock = 0
  /\ readers = [t \in Threads |-> {}]
  /\ pc = [t \in Threads |-> "closed"]
  /\ op = [t \in Threads |-> NoOp]
  /\ ret = [t \in Threads |-> NoRet]
  /\ oracle = [k \in Keys |-> None]
  /\ calls = 0
  /\ kv = KvClosed
  /\ net = NetDown
  /\ proc = [state |-> "down", marker |-> None, arg |-> None, engine |-> None,
             sled_db |-> FALSE]

\* main and start: get_engine, the marker file is written, the engine is
\* opened on the working directory and the server runs; an engine mismatch
\* and a failed start end the process with status 1.
Start(arg) ==
  /\ proc.state # "running"
  /\ LET engine == get_engine(arg, proc.marker)
     IN IF engine = "exit 1"
        THEN /\ proc' = [proc EXCEPT !.state = "exit1", !.arg = arg, !.engine = None]
             /\ UNCHANGED engineVars
        ELSE IF engine = "kvs"
        THEN /\ Open
             /\ proc' = [proc EXCEPT !.state = IF ret'[1].res.ok THEN "running" ELSE "exit1",
                                     !.arg = arg, !.engine = engine, !.marker = engine]
        ELSE /\ proc' = [proc EXCEPT !.state = "running", !.arg = arg, !.engine = engine,
                                     !.marker = engine, !.sled_db = TRUE]
             /\ UNCHANGED engineVars
  /\ UNCHANGED <<kv, net>>

\* The process is stopped while no request is being handled: every handle
\* is closed.
Kill ==
  /\ proc.state = "running"
  /\ \A t \in Threads : pc[t] \in {"idle", "closed"}
  /\ proc' = [proc EXCEPT !.state = "down"]
  /\ pc' = [t \in Threads |-> "closed"]
  /\ readers' = [t \in Threads |-> {}]
  /\ wreaders' = {}
  /\ files' = Reclaim(files, dir, {})
  /\ UNCHANGED <<dir, index, safe_point, current_term, uncompacted, writer, comp,
                 lock, op, ret, oracle, calls, kv, net>>

\* The process dies while set writes its record: only the first n bytes of
\* the record have reached the log file.
CrashInWrite(t, n) ==
  /\ proc.state = "running"
  /\ pc[t] = "set_write"
  /\ LET cmd == SetCmd(op[t].key, op[t].value)
     IN /\ n \in 1..(EncLen(cmd) - 1)
        /\ files' = Reclaim([files EXCEPT ![writer.term] =
                               WriteAt(@, writer.at, <<[cmd |-> cmd, lo |-> 1, hi |-> n]>>)],
                            dir, {})
  /\ proc' = [proc EXCEPT !.state = "down"]
  /\ pc' = [u \in Threads |-> "closed"]
  /\ op' = [u \in Threads |-> NoOp]
  /\ lock' = 0
  /\ readers' = [u \in Threads |-> {}]
  /\ wreaders' = {}
  /\ UNCHANGED <<dir, index, safe_point, current_term, uncompacted, writer, comp,
                 ret, oracle, calls, kv, net>>

\* The lengths at which a record is cut in this specification.
CutLengths == {1, 30}

NextProc ==
  \/ \E arg \in Engines \cup {None} : Start(arg)
  \/ Kill
  \/ \E n \in CutLengths : CrashInWrite(1, n)
  \/ ThreadStep(1, ProcKeys)

SpecProc == InitProc /\ [][NextProc]_vars

\* Some log file of the directory holds bytes that are no whole record.
Corrupt == \E t \in dir : \E i \in 1..Len(files[t]) : ~IsWhole(files[t][i])

\* C13 (recovery fails on an undecodable record): when a log file holds an
\* undecodable record, KvStore::open returns the decoding error and there is
\* no engine; no file is truncated or otherwise changed, no file is created
\* and no index built from the records before the bad one is kept.
C13_OpenFailsOnCorruptLog ==
  [][(proc.state # "running" /\ proc'.engine = "kvs" /\ Corrupt) =>
       /\ ret'[1] = Ret("open", "", Err("SerdeJson"))
       /\ proc'.state = "exit1"
       /\ \A t \in Threads : pc'[t] = "closed"
       /\ index' = EmptyIndex
       /\ current_term' = 0
       /\ writer' = NoHandle
       /\ dir' = dir
       /\ \A t \in dir : files'[t] = files[t]]_vars

\* C13 witness: open has failed on a log whose tail is a cut record that
\* follows a whole record of the same key.
C13_Witness ==
  /\ proc.state = "exit1"
  /\ proc.engine = "kvs"
  /\ ret[1] = Ret("open", "", Err("SerdeJson"))
  /\ oracle["a"] # None
  /\ Corrupt

\* C19 (engine selection): a start whose --engine argument differs from the
\* engine recorded in the marker file exits with status 1 and leaves the
\* marker, the log files and the sled database as they were; any other
\* start uses the argument if given, else the recorded engine, else kvs,
\* and writes that engine to the marker file.
C19_EngineSelection ==
  [][(proc.state # "running" /\ proc' # proc) =>
       IF proc.marker # None /\ proc'.arg # None /\ proc'.arg # proc.marker
       THEN /\ proc'.state = "exit1"
            /\ proc'.marker = proc.marker
            /\ proc'.sled_db = proc.sled_db
            /\ UNCHANGED <<dir, files>>
       ELSE /\ proc'.engine = (IF proc'.arg # None THEN proc'.arg
                               ELSE IF proc.marker # None THEN proc.marker
                               ELSE "kvs")
            /\ proc'.marker = proc'.engine]_vars

\* C19 witness: a directory initialised and written by the kvs engine, and
\* a start with --engine sled that has exited with status 1.
C19_Witness ==
  /\ proc.state = "exit1"
  /\ proc.marker = "kvs"
  /\ proc.arg = "sled"
  /\ proc.engine = None
  /\ oracle["a"] # None

\* The index of the last record of key k in the file f, 0 when there is
\* none.
LastRecord(f, k) ==
  LET S == {i \in 1..Len(f) : f[i].cmd.key = k}
  IN IF S = {} THEN 0 ELSE CHOOSE i \in S : \A j \in S : i >= j

\* The Pos of the record that decides key k when the files of the directory
\* are read in ascending term order: the last record of k in the file of
\* the highest term that has one, if it is a Set.
LatestPos(k) ==
  LET T == {t \in dir : LastRecord(files[t], k) # 0}
  IN IF T = {} THEN NoPos
     ELSE LET m == CHOOSE t \in T : \A u \in T : t >= u
              f == files[m]
              i == LastRecord(f, k)
          IN IF f[i].cmd.type = "Set"
             THEN Pos(m, Size(SubSeq(f, 1, i - 1)), ExtLen(f[i]))
             ELSE NoPos

\* C29 (current term after open): when open succeeds, current_term is the
\* largest term found in the directory plus one, 1 for a directory with no
\* log file; the file of current_term is new and empty and the writer is
\* at its start; the index is the one of a replay in ascending term order.
C29_OpenTerm ==
  [][(proc.state # "running" /\ proc'.state = "running" /\ proc'.engine = "kvs") =>
       /\ current_term' =
            IF dir = {} THEN 1 ELSE (CHOOSE t \in dir : \A u \in dir : t >= u) + 1
       /\ current_term' \notin dir
       /\ dir' = dir \cup {current_term'}
       /\ files'[current_term'] = <<>>
       /\ writer' = Handle(current_term', 0)
       /\ \A k \in ProcKeys : index'[k] = LatestPos(k)]_vars

\* C29 witness: the engine has just been opened on a directory from which a
\* compaction had deleted the first files; the key is in the index.
C29_Witness ==
  /\ proc.state = "running"
  /\ ret[1] = Ret("open", "", Ok(Unit))
  /\ 1 \notin dir
  /\ Cardinality(dir) >= 3
  /\ files[current_term] = <<>>
  /\ index["a"] # NoPos
  /\ index["a"].term < current_term - 1

\* ------------------------------------------------------------------------
\* The server (src/server.rs): the accept thread, the tasks serving the
\* accepted connections on the workers of the pool, and shutdown.  The
\* workers are the threads of the engine model: a task calls the engine
\* through its own clone of the KvStore.

\* The requests a client sends in one run, over all connections.
MaxReqs == 2

ServerKeys == {"a"}

GetReq(k) == [kind |-> "Get", key |-> k, value |-> ""]

SetReq(k, v) == [kind |-> "Set", key |-> k, value |-> v]

RemoveReq(k) == [kind |-> "Remove", key |-> k, value |-> ""]

\* Bytes on the stream that are no Request.
Garbage == [kind |-> "Garbage", key |-> "", value |-> ""]

Requests ==
  {GetReq(k) : k \in ServerKeys} \cup {SetReq(k, v) : k \in ServerKeys, v \in Values}
    \cup {RemoveReq(k) : k \in ServerKeys} \cup {Garbage}

\* Mutant of Display: the name of the variant instead of its message.
Display_debug(e) == e

\* The Display of KvsError (#[error("...")]).
Display(e) ==
  CASE e = "KeyNotFound" -> "Key not found"
    [] e = "UnexpectedCommandType" -> "Get unexpected command type"
    [] e = "Io" -> "Io error"
    [] e = "SerdeJson" -> "Serde json error"
    [] OTHER -> "String error"

\* The response serve builds from the result of the engine call.
Response(req, res) ==
  [kind |-> req.kind, ok |-> res.ok,
   val |-> IF ~res.ok THEN Display(res.val)
           ELSE IF req.kind = "Get" THEN res.val ELSE Unit]

\* The state after KvsServer::new and run: the listener is bound and
\* non-blocking, the accept thread is in its loop.
NetInit ==
  [NetDown EXCEPT !.listening = TRUE, !.accept_pc = "accept", !.main_pc = "running"]

InitServer == InitEngine /\ kv = KvClosed /\ proc = ProcNone /\ net = NetInit

\* Clients.  A client connects while the listener exists (the connection
\* waits in the backlog), sends requests, closes its sending side or resets
\* the connection.  A reset is seen by the task serving the connection (the
\* reset of a connection not yet accepted shows as an error of accept).
Connect(c) ==
  /\ net.listening
  /\ net.conns[c].state = "free"
  /\ net' = [net EXCEPT !.conns[c].state = "pending", !.backlog = Append(@, c)]
  /\ UNCHANGED <<engineVars, kv, proc>>

Send(c, r) ==
  /\ net.conns[c].state \in {"pending", "queued", "serving"}
  /\ net.conns[c].peer = "open"
  /\ net.sent < MaxReqs
  /\ net' = [net EXCEPT !.conns[c].sent = Append(@, r), !.sent = @ + 1]
  /\ UNCHANGED <<engineVars, kv, proc>>

Close(c) ==
  /\ net.conns[c].state \in {"pending", "queued", "serving"}
  /\ net.conns[c].peer = "open"
  /\ net' = [net EXCEPT !.conns[c].peer = "eof"]
  /\ UNCHANGED <<engineVars, kv, proc>>

Abort(c) ==
  /\ net.conns[c].state = "serving"
  /\ net.conns[c].peer = "open"
  /\ net' = [net EXCEPT !.conns[c].peer = "reset"]
  /\ UNCHANGED <<engineVars, kv, proc>>

\* The accept loop: accept returns a stream, which is handed to the pool
\* with a clone of the engine.
AcceptOk ==
  /\ net.accept_pc = "accept"
  /\ net.backlog # <<>>
  /\ LET c == Head(net.backlog)
     IN net' = [net EXCEPT !.backlog = Tail(@), !.conns[c].state = "queued",
                           !.queue = Append(@, c)]
  /\ UNCHANGED <<engineVars, kv, proc>>

\* accept returns WouldBlock: the loop ends when the shutdown flag is set
\* (the listener is dropped with the thread's closure), else the thread
\* sleeps 10 ms and calls accept again, which changes nothing.
AcceptWouldBlock ==
  /\ net.accept_pc = "accept"
  /\ net.backlog = <<>>
  /\ IF net.shutdown
     THEN net' = [net EXCEPT !.accept_pc = "exited", !.listening = FALSE]
     ELSE UNCHANGED net
  /\ UNCHANGED <<engineVars, kv, proc>>

\* accept fails on a waiting connection with another error (such as no
\* file descriptor left, which leaves the connection waiting): the error is
\* logged and the loop goes on.
AcceptErr ==
  /\ net.accept_pc = "accept"
  /\ net.backlog # <<>>
  /\ net' = [net EXCEPT !.accept_pc = "log_error"]
  /\ UNCHANGED <<engineVars, kv, proc>>

AcceptLogged ==
  /\ net.accept_pc = "log_error"
  /\ net' = [net EXCEPT !.accept_pc = "accept"]
  /\ UNCHANGED <<engineVars, kv, proc>>

AcceptThread == AcceptOk \/ AcceptWouldBlock \/ AcceptErr \/ AcceptLogged

\* KvsServer::shutdown: the flag is stored, then the accept thread joined.
Shutdown ==
  /\ net.main_pc = "running"
  /\ net' = [net EXCEPT !.shutdown = TRUE, !.main_pc = "joining"]
  /\ UNCHANGED <<engineVars, kv, proc>>

ShutdownJoin ==
  /\ net.main_pc = "joining"
  /\ net.accept_pc = "exited"
  /\ net' = [net EXCEPT !.main_pc = "returned"]
  /\ UNCHANGED <<engineVars, kv, proc>>

\* ThreadPool::spawn as the pool's contract has it: a free worker (the
\* workers are alike: the first free one) takes the oldest submitted task
\* and runs it to completion.  The task owns a fresh clone of the engine (an
\* empty cache of read handles).
PoolTake(t) ==
  /\ net.worker[t].conn = 0
  /\ \A u \in Threads : u < t => net.worker[u].conn # 0
  /\ net.queue # <<>>
  /\ pc[t] = "idle"
  /\ LET c == Head(net.queue)
     IN net' = [net EXCEPT !.queue = Tail(@), !.conns[c].state = "serving",
                           !.worker[t] = [conn |-> c, req |-> NoReq]]
  /\ readers' = [readers EXCEPT ![t] = {}]
  /\ files' = Reclaim(files, dir, AllCaches(readers', wreaders))
  /\ UNCHANGED <<dir, index, safe_point, current_term, uncompacted, writer, wreaders,
                 comp, lock, pc, op, ret, oracle, calls, kv, proc>>

\* Mutant of NextRequest: the newest request on the stream is taken.
NextRequest_newest(cn) == cn.sent[Len(cn.sent)]

\* The next request on the stream of a connection.
NextRequest(cn) == cn.sent[cn.nread + 1]

\* Mutant of AfterServe: a failed task also throws away the tasks waiting in
\* the pool.
AfterServe_drops_queue(n, t, c, state) ==
  [n EXCEPT !.conns[c].state = state, !.worker[t] = NoTask,
            !.queue = IF state = "failed" THEN <<>> ELSE @]

\* serve has returned (Ok: "done", Err: "failed"): the task is over and the
\* worker is free again.
AfterServe(n, t, c, state) ==
  [n EXCEPT !.conns[c].state = state, !.worker[t] = NoTask]

\* serve returns: the task's clone of the engine is dropped with its handles.
ServeEnd(t, state) ==
  /\ net' = AfterServe(net, t, net.worker[t].conn, state)
  /\ readers' = [readers EXCEPT ![t] = {}]
  /\ files' = Reclaim(files, dir, AllCaches(readers', wreaders))
  /\ UNCHANGED <<dir, index, safe_point, current_term, uncompacted, writer, wreaders,
                 comp, lock, pc, op, ret, oracle, calls, kv, proc>>

\* serve, the head of the loop: the next request is decoded from the
\* stream.  The loop ends with Ok at the end of the stream, with an error
\* on bytes that are no request and on a reset connection; the read blocks
\* while the peer has sent nothing more.
ServeRead(t) ==
  /\ net.worker[t].conn # 0
  /\ net.worker[t].req = NoReq
  /\ pc[t] = "idle"
  /\ LET c == net.worker[t].conn
         cn == net.conns[c]
     IN IF cn.peer = "reset" THEN ServeEnd(t, "failed")
        ELSE IF cn.nread < Len(cn.sent)
        THEN IF NextRequest(cn) = Garbage THEN ServeEnd(t, "failed")
             ELSE /\ net' = [net EXCEPT !.worker[t].req = NextRequest(cn),
                                        !.conns[c].nread = @ + 1]
                  /\ ret' = [ret EXCEPT ![t] = NoRet]
                  /\ UNCHANGED <<dir, files, index, safe_point, current_term, uncompacted,
                                 writer, wreaders, comp, lock, readers, pc, op, oracle,
                                 calls, kv, proc>>
        ELSE cn.peer = "eof" /\ ServeEnd(t, "done")

\* serve, the dispatch: the engine call of the request starts.
ServeCall(t) ==
  /\ net.worker[t].req # NoReq
  /\ ret[t] = NoRet
  /\ pc[t] = "idle"
  /\ LET req == net.worker[t].req
     IN CASE req.kind = "Get" -> GetLookup(t, req.key)
          [] req.kind = "Set" -> SetLock(t, req.key, req.value)
          [] req.kind = "Remove" -> RemoveLock(t, req.key)

\* The steps of an engine call that has started.
EngineStep(t) ==
  \/ GetEvict(t)
  \/ GetOpen(t)
  \/ GetRead(t)
  \/ SetWrite(t)
  \/ SetInsert(t)
  \/ RemoveCheck(t)
  \/ RemoveIndex(t)
  \/ CompactBegin(t)
  \/ CompactCopy(t)
  \/ CompactFlush(t)
  \/ CompactSafePoint(t)
  \/ CompactDelete(t)

\* serve, send_resp: the response is written and flushed; on a reset
\* connection the write fails and serve returns the error.
ServeRespond(t) ==
  /\ net.worker[t].req # NoReq
  /\ pc[t] = "idle"
  /\ ret[t] # NoRet
  /\ LET c == net.worker[t].conn
     IN IF net.conns[c].peer = "reset" THEN ServeEnd(t, "failed")
        ELSE /\ net' = [net EXCEPT !.conns[c].resps =
                                     Append(@, Response(net.worker[t].req, ret[t].res)),
                                   !.worker[t].req = NoReq]
             /\ UNCHANGED <<engineVars, kv, proc>>

WorkerStep(t) ==
  PoolTake(t) \/ ServeRead(t) \/ ServeCall(t) \/ EngineStep(t) \/ ServeRespond(t)

MainThread == Shutdown \/ ShutdownJoin

ClientStep ==
  \E c \in Conns :
    \/ Connect(c)
    \/ \E r \in Requests : Send(c, r)
    \/ Close(c)
    \/ Abort(c)

NextServer ==
  \/ ClientStep
  \/ AcceptThread
  \/ MainThread
  \/ \E t \in Threads : WorkerStep(t)

\* The threads of the server are scheduled fairly; nothing is assumed of
\* the clients and of the errors of accept.
SpecServer ==
  /\ InitServer
  /\ [][NextServer]_vars
  /\ WF_vars(AcceptThread)
  /\ WF_vars(MainThread)
  /\ \A t \in Threads : WF_vars(WorkerStep(t))

\* ------------------------------------------------------------------------
\* Properties of the server

\* The requests of a connection and its responses, one for one and in
\* order; how the task of the connection has ended.
ConnInOrder(c) ==
  LET cn == net.conns[c]
      n == Len(cn.resps)
  IN /\ cn.nread \in {n, n + 1}
     /\ cn.nread <= Len(cn.sent)
     /\ \A i \in 1..n : cn.resps[i].kind = cn.sent[i].kind
     /\ cn.nread = n + 1 =>
          \/ /\ cn.state = "serving"
             /\ \E t \in Threads : net.worker[t] = [conn |-> c, req |-> cn.sent[n + 1]]
          \/ cn.state = "failed" /\ cn.peer = "reset"
     /\ cn.state = "done" => cn.peer = "eof" /\ n = Len(cn.sent)
     /\ cn.state = "failed" =>
          \/ cn.peer = "reset"
          \/ n = cn.nread /\ cn.nread < Len(cn.sent) /\ cn.sent[cn.nread + 1] = Garbage
     /\ cn.state \in {"free", "pending", "queued"} => cn.nread = 0 /\ n = 0

\* C14 (one response per request, in order): on every connection the k-th
\* response is of the kind of the k-th request, at most one request is
\* decoded and not yet answered (the one a worker is handling), and the
\* task of a connection has ended only at the end of the stream with every
\* request answered, on bytes that are no request, or on a reset stream.
C14_ResponsesInOrder == \A c \in Conns : ConnInOrder(c)

\* C14 witness: a connection closed by the client after two requests of
\* different kinds, both answered.
C14_Witness ==
  \E c \in Conns :
    /\ net.conns[c].state = "done"
    /\ Len(net.conns[c].resps) = 2
    /\ net.conns[c].resps[1].kind # net.conns[c].resps[2].kind

\* C15 (shutdown liveness): once shutdown() has set the flag, the accept
\* thread leaves its loop, the listener is released and shutdown() returns.
C15_ShutdownReturns ==
  net.shutdown ~> (net.main_pc = "returned" /\ ~net.listening)

\* C16 (no accept after shutdown): once the flag is set no connection is
\* accepted and handed to the pool; setting the flag leaves the connections,
\* the waiting tasks and the workers as they are.
C16_NoAcceptAfterShutdown ==
  [][/\ net.shutdown =>
          \A c \in Conns :
            ~(net.conns[c].state = "pending" /\ net'.conns[c].state = "queued")
     /\ (~net.shutdown /\ net'.shutdown) =>
          /\ net'.conns = net.conns
          /\ net'.queue = net.queue
          /\ net'.worker = net.worker]_vars

\* C17 (engine errors are answered): remove of a key that is not in the
\* index returns KeyNotFound and get of such a key Ok(None); serve answers
\* them with RemoveResponse::Err("Key not found") and GetResponse::Ok(None),
\* and after the response the task is still serving the connection, back at
\* the head of its loop.
C17_EngineErrorsAnswered ==
  [][\A t \in Threads :
       LET c == net.worker[t].conn
           req == net.worker[t].req
       IN /\ (/\ op[t].kind = "remove"
              /\ pc[t] # "idle"
              /\ pc'[t] = "idle"
              /\ index[op[t].key] = NoPos) => ret'[t].res = Err("KeyNotFound")
          /\ (/\ req.kind = "Get"
              /\ ret[t] = NoRet
              /\ pc[t] = "idle"
              /\ index[req.key] = NoPos
              /\ ret'[t] # NoRet) => ret'[t].res = Ok(None)
          /\ (c # 0 /\ Len(net'.conns[c].resps) > Len(net.conns[c].resps)) =>
               LET r == Last(net'.conns[c].resps)
               IN /\ (req.kind = "Remove" /\ ret[t].res = Err("KeyNotFound")) =>
                       r = [kind |-> "Remove", ok |-> FALSE, val |-> "Key not found"]
                  /\ (req.kind = "Get" /\ ret[t].res = Ok(None)) =>
                       r = [kind |-> "Get", ok |-> TRUE, val |-> None]
                  /\ net'.conns[c].state = "serving"
                  /\ net'.worker[t] = [conn |-> c, req |-> NoReq]]_vars

\* C17 witness: a connection on which a Remove of an absent key was
\* answered with the error and the Get sent after it was answered too.
C17_Witness ==
  \E c \in Conns :
    /\ Len(net.conns[c].resps) = 2
    /\ net.conns[c].resps[1] = [kind |-> "Remove", ok |-> FALSE, val |-> "Key not found"]
    /\ net.conns[c].resps[2] = [kind |-> "Get", ok |-> TRUE, val |-> None]

\* C18 (a failed connection ends only its task): when serve fails on a
\* connection, the engine (index, terms, log files, writer, lock) is as it
\* was, the accept loop, the waiting connections and tasks, the other
\* connections and the other workers are untouched, and the worker that
\* served the connection is free for the next task.
C18_FailureIsLocal ==
  [][\A c \in Conns :
       (net.conns[c].state = "serving" /\ net'.conns[c].state = "failed") =>
         /\ UNCHANGED <<dir, index, safe_point, current_term, uncompacted, writer,
                        wreaders, comp, lock, oracle, pc, op, ret>>
         /\ \A f \in dir : files'[f] = files[f]
         /\ net'.accept_pc = net.accept_pc
         /\ net'.listening = net.listening
         /\ net'.backlog = net.backlog
         /\ net'.queue = net.queue
         /\ net'.conns[c].resps = net.conns[c].resps
         /\ \A d \in Conns \ {c} : net'.conns[d] = net.conns[d]
         /\ \A t \in Threads :
              IF net.worker[t].conn = c THEN net'.worker[t] = NoTask
              ELSE net'.worker[t] = net.worker[t] /\ readers'[t] = readers[t]]_vars

\* C18 witness: connection 1 has failed on bytes that are no request, the
\* accept loop is running and connection 2 has had a request answered.
C18_Witness ==
  /\ net.conns[1].state = "failed"
  /\ net.conns[1].peer # "reset"
  /\ net.accept_pc = "accept"
  /\ net.conns[2].state = "serving"
  /\ Len(net.conns[2].resps) = 1

====
